---- MODULE Spec2Model ----
(***************************************************************************)
(* Model of src/app.py: the profile directory page.  One page run is       *)
(* main(): load_data() (cached), the sidebar widgets, the two filters and  *)
(* the card loop, which resolves a photo per record with get_image_path    *)
(* and get_base64_image_src.                                               *)
(*                                                                         *)
(* Text is modelled as a sequence of one-character strings so that strip,  *)
(* replace, lower, split and substring search are computed, not assumed.   *)
(***************************************************************************)
EXTENDS Integers, Sequences, FiniteSets, TLC

VARIABLES
    csv_file,           \* profiles.csv on disk (CSV_FILE)
    photos,             \* the photos folder on disk (PHOTOS_FOLDER)
    astype_keeps_na,    \* the installed pandas: does astype(str) keep NaN
    pc,                 \* position of main() in the current page run
    runs,               \* page runs started so far
    cached,             \* st.cache_data holds a load_data result
    cache_value,        \* the cached load_data result
    df,                 \* main's df
    errors,             \* st.error messages shown in this run
    search_query,       \* main's search_query
    selected_country,   \* main's selected_country
    all_countries,      \* main's all_countries
    filtered_df,        \* main's filtered_df
    grid_open,          \* the pinterest-grid container was emitted
    no_match,           \* the 'No profiles match' block was emitted
    cards,              \* the cards emitted in this run
    exception           \* the unhandled exception that ended the run

vars == <<csv_file, photos, astype_keeps_na, pc, runs, cached, cache_value,
          df, errors, search_query, selected_country, all_countries,
          filtered_df, grid_open, no_match, cards, exception>>

-----------------------------------------------------------------------------
(* Bounds of the model *)

MaxRows == 3
MaxPhotos == 2
MaxRuns == 2

-----------------------------------------------------------------------------
(* Text: python str operations on sequences of characters *)

UPPER == <<"A","B","C","D","E","F","G","H","I","J","K","L","M",
           "N","O","P","Q","R","S","T","U","V","W","X","Y","Z">>
LOWER == <<"a","b","c","d","e","f","g","h","i","j","k","l","m",
           "n","o","p","q","r","s","t","u","v","w","x","y","z">>

\* the characters of the model in code-point order (python compares str by it)
CODEPOINTS == <<"\t", " ", ",", "-", ".", "/",
                "0","1","2","3","4","5","6","7","8","9", ";">>
              \o UPPER \o <<"_">> \o LOWER

Characters == { CODEPOINTS[i] : i \in 1..Len(CODEPOINTS) }

\* ord(c), as the position in CODEPOINTS
OrdTable ==
    [c \in Characters |-> CHOOSE i \in 1..Len(CODEPOINTS) : CODEPOINTS[i] = c]

Ord(c) == OrdTable[c]

Whitespace == {" ", "\t"}

\* the lowercase of every character
LowerTable ==
    [c \in Characters |->
        IF \E i \in 1..Len(UPPER) : UPPER[i] = c
        THEN LOWER[CHOOSE i \in 1..Len(UPPER) : UPPER[i] = c]
        ELSE c]

LowerChar(c) == LowerTable[c]

\* a sequence given as a function on 1..n, as the tuple of its values
List(f) == SubSeq(f, 1, Len(f))

\* str.lower()
Lower(s) == List([i \in 1..Len(s) |-> LowerChar(s[i])])

RECURSIVE LStrip(_)
LStrip(s) == IF s # <<>> /\ Head(s) \in Whitespace THEN LStrip(Tail(s)) ELSE s

RECURSIVE RStrip(_)
RStrip(s) ==
    IF s # <<>> /\ s[Len(s)] \in Whitespace
    THEN RStrip(SubSeq(s, 1, Len(s) - 1))
    ELSE s

\* str.strip(): removes leading and trailing whitespace of any kind
Strip(s) == RStrip(LStrip(s))

\* str.replace(old, new) for single characters
Replace(s, old, new) ==
    List([i \in 1..Len(s) |-> IF s[i] = old THEN new ELSE s[i]])

\* str.split(sep)[0] for a one-character sep: the text before the first sep
SplitFirst(s, sep) ==
    IF \E i \in 1..Len(s) : s[i] = sep
    THEN SubSeq(s, 1, (CHOOSE i \in 1..Len(s) :
                          s[i] = sep /\ \A j \in 1..(i - 1) : s[j] # sep) - 1)
    ELSE s

\* python's `sub in s`
Contains(sub, s) ==
    \E k \in 0..(Len(s) - Len(sub)) : SubSeq(s, k + 1, k + Len(sub)) = sub

\* sep.join(parts)
RECURSIVE Join(_, _)
Join(parts, sep) ==
    IF parts = <<>> THEN <<>>
    ELSE IF Len(parts) = 1 THEN parts[1]
    ELSE parts[1] \o sep \o Join(Tail(parts), sep)

\* python's s < t on str: lexicographic by code point
RECURSIVE StrLess(_, _)
StrLess(s, t) ==
    IF t = <<>> THEN FALSE
    ELSE IF s = <<>> THEN TRUE
    ELSE IF Head(s) = Head(t) THEN StrLess(Tail(s), Tail(t))
    ELSE Ord(Head(s)) < Ord(Head(t))

-----------------------------------------------------------------------------
(* Values of a DataFrame cell: a str, or NaN for a missing value *)

NaN == [na |-> TRUE, s |-> <<>>]
Str(s) == [na |-> FALSE, s |-> s]

s_nan == <<"n", "a", "n">>

\* python's str(value)
PyStr(cell) == IF cell.na THEN s_nan ELSE cell.s

\* python's ==, elementwise in a pandas comparison: NaN equals nothing
CellEq(a, b) == ~a.na /\ ~b.na /\ a.s = b.s

-----------------------------------------------------------------------------
(* load_data *)

s_Name == <<"N", "a", "m", "e">>
s_Birthday == <<"B", "i", "r", "t", "h", "d", "a", "y">>
s_TownCounty == <<"T", "o", "w", "n", "/", "C", "o", "u", "n", "t", "y">>
s_Country == <<"C", "o", "u", "n", "t", "r", "y">>
s_UnknownProfile == <<"U", "n", "k", "n", "o", "w", "n", " ",
                      "P", "r", "o", "f", "i", "l", "e">>

\* required_cols_map, in the dict's insertion order
required_cols_map ==
    << [lower_name |-> Lower(s_Name),       target_col |-> s_Name],
       [lower_name |-> Lower(s_Birthday),   target_col |-> s_Birthday],
       [lower_name |-> Lower(s_TownCounty), target_col |-> s_TownCounty],
       [lower_name |-> Lower(s_Country),    target_col |-> s_Country] >>

\* pd.DataFrame()
EmptyDataFrame == [columns |-> <<>>, rows |-> <<>>]

\* DataFrame.empty: no columns or no rows
IsEmpty(frame) == Len(frame.columns) = 0 \/ Len(frame.rows) = 0

\* position of the column called col
ColumnIndex(frame, col) ==
    CHOOSE j \in 1..Len(frame.columns) :
        frame.columns[j] = col /\ \A k \in 1..(j - 1) : frame.columns[k] # col

\* row[col]
Field(frame, row, col) == row[ColumnIndex(frame, col)]

\* `not sample.strip()` on the leading sample of the file
SampleIsBlank(file) == file.kind \in {"empty", "whitespace"}

\* pandas reads an empty field as NaN and any other text as it stands
ParseCell(text) == IF text = <<>> THEN NaN ELSE Str(text)

\* pd.read_csv(CSV_FILE, sep=...): with the file's own delimiter the fields
\* come apart; with another character every line is one field
read_csv(file, sep) ==
    IF sep = file.delimiter
    THEN [columns |-> file.header,
          rows    |-> List([i \in 1..Len(file.rows) |->
                         List([j \in 1..Len(file.rows[i]) |->
                                 ParseCell(file.rows[i][j])])])]
    ELSE [columns |-> << Join(file.header, <<file.delimiter>>) >>,
          rows    |-> List([i \in 1..Len(file.rows) |->
                         << ParseCell(Join(file.rows[i], <<file.delimiter>>)) >>])]

\* df.columns = [col.strip().replace('_', ' ') for col in df.columns]
NormalizeColumns(columns) ==
    List([j \in 1..Len(columns) |-> Replace(Strip(columns[j]), "_", " ")])

\* the inner loop: the first column whose lowercase equals lower_name
HasColumn(columns, lower_name) ==
    \E j \in 1..Len(columns) : Lower(columns[j]) = lower_name

FoundCol(columns, lower_name) ==
    columns[CHOOSE j \in 1..Len(columns) :
                /\ Lower(columns[j]) = lower_name
                /\ \A k \in 1..(j - 1) : Lower(columns[k]) # lower_name]

\* df.rename(columns={found_col: target_col}, inplace=True)
Rename(columns, found_col, target_col) ==
    List([j \in 1..Len(columns) |->
            IF columns[j] = found_col THEN target_col ELSE columns[j]])

\* the loop over required_cols_map from entry k on: the renamed columns, or
\* the first required column that is missing
RECURSIVE MapRequired(_, _)
MapRequired(columns, k) ==
    IF k > Len(required_cols_map) THEN [ok |-> TRUE, columns |-> columns,
                                        missing |-> <<>>]
    ELSE LET entry == required_cols_map[k] IN
         IF ~HasColumn(columns, entry.lower_name)
         THEN [ok |-> FALSE, columns |-> columns, missing |-> entry.target_col]
         ELSE LET found_col == FoundCol(columns, entry.lower_name) IN
              IF found_col # <<>> /\ found_col # entry.target_col
              THEN MapRequired(Rename(columns, found_col, entry.target_col), k + 1)
              ELSE MapRequired(columns, k + 1)

\* Series.astype(str): NaN becomes the text 'nan', unless this pandas keeps it
AsTypeStr(cell, keeps_na) ==
    IF cell.na THEN (IF keeps_na THEN NaN ELSE Str(s_nan)) ELSE cell

\* Series.fillna(value)
FillNa(cell, value) == IF cell.na THEN Str(value) ELSE cell

\* df['Name'] = df['Name'].astype(str).fillna('Unknown Profile')
FillName(frame, keeps_na) ==
    LET n == ColumnIndex(frame, s_Name) IN
    [frame EXCEPT !.rows =
        List([i \in 1..Len(frame.rows) |->
                [frame.rows[i] EXCEPT
                    ![n] = FillNa(AsTypeStr(frame.rows[i][n], keeps_na),
                                  s_UnknownProfile)]])]

\* st.error(...) followed by return pd.DataFrame()
Failed(kind, column) ==
    [df |-> EmptyDataFrame, errors |-> << [kind |-> kind, column |-> column] >>]

\* load_data(): the DataFrame returned and the st.error messages shown
load_data(file, keeps_na) ==
    IF file.kind = "missing" THEN Failed("not_found", <<>>)
    ELSE IF SampleIsBlank(file) THEN Failed("empty", <<>>)
    ELSE IF file.sniff = "raise" THEN Failed("load_error", <<>>)
    ELSE LET parsed == read_csv(file, file.sniff)
             mapped == MapRequired(NormalizeColumns(parsed.columns), 1)
         IN  IF ~mapped.ok THEN Failed("missing_column", mapped.missing)
             ELSE [df     |-> FillName([parsed EXCEPT !.columns = mapped.columns],
                                       keeps_na),
                   errors |-> <<>>]

-----------------------------------------------------------------------------
(* get_image_path *)

NoPath == [kind |-> "none", file |-> <<>>]
Raised == [kind |-> "raise", file |-> <<>>]

\* name.strip().split(' ')[0].lower()
FirstName(text) == Lower(SplitFirst(Strip(text), " "))

\* the for loop over os.listdir(photos_dir) from entry k on
RECURSIVE FirstMatch(_, _, _)
FirstMatch(listing, first_name, k) ==
    IF k > Len(listing) THEN NoPath
    ELSE IF Contains(first_name, Lower(listing[k].name))
         THEN [kind |-> "path", file |-> listing[k].name]
         ELSE FirstMatch(listing, first_name, k + 1)

\* the body of the try block: name.strip raises on a value that is no str,
\* os.listdir on a folder it cannot read
ImagePathTry(name, folder) ==
    IF name.na THEN Raised
    ELSE LET first_name == FirstName(name.s) IN
         IF first_name = <<>> THEN NoPath
         ELSE IF folder.kind = "absent" THEN NoPath
         ELSE IF folder.kind = "unreadable" THEN Raised
         ELSE FirstMatch(folder.listing, first_name, 1)

\* get_image_path(name): `except Exception: pass`, then `return None`
get_image_path(name, folder) ==
    LET r == ImagePathTry(name, folder) IN
    IF r.kind = "raise" THEN NoPath ELSE r

-----------------------------------------------------------------------------
(* get_base64_image_src *)

placeholder_url == [kind |-> "placeholder", file |-> <<>>, rotations |-> <<>>]
RaisedSrc == [kind |-> "raise", file |-> <<>>, rotations |-> <<>>]

\* ExifTags.TAGS.get(tag), for the tags of the model
ExifTagName(tag) ==
    IF tag = 274 THEN "Orientation" ELSE IF tag = 271 THEN "Make" ELSE "None"

\* OrientationRotations with the angles of 6 and 8 exchanged
OrientationRotationsSwapped(value) ==
    IF value = 3 THEN <<180>>
    ELSE IF value = 6 THEN <<90>>
    ELSE IF value = 8 THEN <<270>>
    ELSE <<>>

\* the rotation chosen for an Orientation value
OrientationRotations(value) ==
    IF value = 3 THEN <<180>>
    ELSE IF value = 6 THEN <<270>>
    ELSE IF value = 8 THEN <<90>>
    ELSE <<>>

\* `for tag, value in exif.items()` from item k on, with its break
RECURSIVE ExifLoop(_, _)
ExifLoop(items, k) ==
    IF k > Len(items) THEN <<>>
    ELSE IF ExifTagName(items[k].tag) = "Orientation"
         THEN OrientationRotations(items[k].value)
         ELSE ExifLoop(items, k + 1)

\* the rotations applied to an opened image
Rotations(file) ==
    IF ~file.has_getexif THEN <<>>
    ELSE IF file.exif.none THEN <<>>
    ELSE ExifLoop(file.exif.items, 1)

\* the entry of the folder a path names
FileAt(folder, name) ==
    folder.listing[CHOOSE k \in 1..Len(folder.listing) :
                       folder.listing[k].name = name]

\* os.path.exists(image_path): false for a dangling link
PathExists(folder, path) ==
    /\ folder.kind = "listable"
    /\ \E k \in 1..Len(folder.listing) : folder.listing[k].name = path.file
    /\ FileAt(folder, path.file).kind # "dangling"

\* the body of the try block: Image.open raises on what is no image,
\* img.save on an image PNG cannot hold
ImageSrcTry(path, folder) ==
    LET file == FileAt(folder, path.file) IN
    IF file.kind \in {"corrupt", "directory"} THEN RaisedSrc
    ELSE IF file.kind = "unwritable" THEN RaisedSrc
    ELSE [kind |-> "data", file |-> file.name, rotations |-> Rotations(file)]

\* get_base64_image_src without its except clause
get_base64_image_src_uncaught(path, folder) ==
    IF path.kind # "path" \/ ~PathExists(folder, path) THEN placeholder_url
    ELSE ImageSrcTry(path, folder)

\* get_base64_image_src(image_path): `except Exception: return placeholder_url`
get_base64_image_src(path, folder) ==
    IF path.kind # "path" \/ ~PathExists(folder, path) THEN placeholder_url
    ELSE LET r == ImageSrcTry(path, folder) IN
         IF r.kind = "raise" THEN placeholder_url ELSE r

-----------------------------------------------------------------------------
(* main: the sidebar and the filters *)

s_All == <<"A", "l", "l">>

\* Series.unique(): distinct values in order of first appearance
RECURSIVE Unique(_)
Unique(cells) ==
    IF cells = <<>> THEN <<>>
    ELSE LET front == Unique(SubSeq(cells, 1, Len(cells) - 1))
             last  == cells[Len(cells)]
         IN  IF \E k \in 1..Len(front) : front[k] = last
             THEN front ELSE Append(front, last)

\* df['Country']
CountryColumn(frame) ==
    List([i \in 1..Len(frame.rows) |-> Field(frame, frame.rows[i], s_Country)])

\* sorted() compares str with float when NaN stands among str values
SortedRaises(cells) ==
    /\ \E k \in 1..Len(cells) : cells[k].na
    /\ \E k \in 1..Len(cells) : ~cells[k].na

RECURSIVE Insert(_, _)
Insert(sorted, cell) ==
    IF sorted = <<>> THEN <<cell>>
    ELSE IF StrLess(cell.s, Head(sorted).s) THEN <<cell>> \o sorted
    ELSE <<Head(sorted)>> \o Insert(Tail(sorted), cell)

\* sorted(values), when no comparison raises
RECURSIVE Sorted(_)
Sorted(cells) ==
    IF cells = <<>> THEN <<>>
    ELSE Insert(Sorted(SubSeq(cells, 1, Len(cells) - 1)), cells[Len(cells)])

\* ['All'] + sorted(df['Country'].unique().tolist())
AllCountries(frame) == <<Str(s_All)>> \o Sorted(Unique(CountryColumn(frame)))

\* CountryFilter without the test for 'All'
CountryFilterAlways(frame, country) ==
    [frame EXCEPT !.rows =
        SelectSeq(frame.rows,
            LAMBDA row : CellEq(Field(frame, row, s_Country), country))]

\* filtered_df[filtered_df['Country'] == selected_country]
CountryFilter(frame, country) ==
    IF CellEq(country, Str(s_All)) THEN frame
    ELSE [frame EXCEPT !.rows =
            SelectSeq(frame.rows,
                LAMBDA row : CellEq(Field(frame, row, s_Country), country))]

\* ' '.join([str(Name), str(Birthday), str(Town/County), str(Country)]).lower()
RowText(frame, row) ==
    Lower(Join(<< PyStr(Field(frame, row, s_Name)),
                  PyStr(Field(frame, row, s_Birthday)),
                  PyStr(Field(frame, row, s_TownCounty)),
                  PyStr(Field(frame, row, s_Country)) >>, <<" ">>))

\* filtered_df[search_mask], applied when search_query is not empty
SearchFilter(frame, query) ==
    IF query = <<>> THEN frame
    ELSE [frame EXCEPT !.rows =
            SelectSeq(frame.rows,
                LAMBDA row : Contains(query, RowText(frame, row)))]

\* the filtering logic of main on a copy of df
ApplyFilters(frame, country, query) ==
    SearchFilter(CountryFilter(frame, country), query)

-----------------------------------------------------------------------------
(* The files the page is run against *)

h_NAME == <<"N", "A", "M", "E">>
h_name == <<"n", "a", "m", "e">>
h_Name_padded == <<" ", "N", "a", "m", "e", " ">>
h_birthday == <<"b", "i", "r", "t", "h", "d", "a", "y">>
h_Town_County == <<"T", "o", "w", "n", "_", "C", "o", "u", "n", "t", "y">>
h_town_county == <<"t", "o", "w", "n", "/", "c", "o", "u", "n", "t", "y">>
h_COUNTRY == <<"C", "O", "U", "N", "T", "R", "Y">>
h_Notes == <<"N", "o", "t", "e", "s">>

n_AnnNg == <<"A", "n", "n", " ", "N", "g">>
n_BenOyelaran == <<"B", "e", "n", " ", "O", "y", "e", "l", "a", "r", "a", "n">>
n_CeeWu == <<"C", "e", "e", " ", "W", "u">>
n_EkeneAmobi == <<"E", "k", "e", "n", "e", " ", "A", "m", "o", "b", "i">>
n_EkeneTabAmobi == <<"E", "k", "e", "n", "e", "\t", "A", "m", "o", "b", "i">>
n_DeeLi == <<"D", "e", "e", " ", "L", "i">>
n_Spaces == <<" ", " ">>
c_UnitedKingdom == <<"U", "n", "i", "t", "e", "d", " ",
                     "K", "i", "n", "g", "d", "o", "m">>
c_united_kingdom == <<"u", "n", "i", "t", "e", "d", " ",
                      "k", "i", "n", "g", "d", "o", "m">>
c_Nigeria == <<"N", "i", "g", "e", "r", "i", "a">>
b_1Jan == <<"1", " ", "J", "a", "n">>
b_3Mar == <<"3", " ", "M", "a", "r">>
t_Leeds == <<"L", "e", "e", "d", "s">>
t_Lagos == <<"L", "a", "g", "o", "s">>
t_York == <<"Y", "o", "r", "k">>

f_ekene_jpg == <<"e", "k", "e", "n", "e", ".", "j", "p", "g">>
f_dated_jpg == <<"2", "0", "2", "3", "-", "0", "6", "-", "0", "1", " ", "-", " ",
                 "E", "k", "e", "n", "e", " ", "A", "m", "o", "b", "i",
                 ".", "j", "p", "g">>
f_EKENEX_png == <<"E", "K", "E", "N", "E", "X", ".", "p", "n", "g">>
f_ann_jpg == <<"a", "n", "n", ".", "j", "p", "g">>
f_ekene == <<"e", "k", "e", "n", "e">>
f_ekene_lnk == <<"e", "k", "e", "n", "e", ".", "l", "n", "k">>
f_ekene_tif == <<"e", "k", "e", "n", "e", ".", "t", "i", "f">>

\* the spellings tried for each column; <<>> stands for a column left out
HeaderSpellings ==
    << {s_Name, h_NAME, h_name, h_Name_padded, <<>>},
       {s_Birthday, h_birthday, <<>>},
       {s_TownCounty, h_Town_County, h_town_county, <<>>},
       {s_Country, h_COUNTRY, <<>>},
       {h_Notes, <<>>} >>

HeaderChoices ==
    { <<n, b, t, c, x>> : n \in HeaderSpellings[1], b \in HeaderSpellings[2],
                          t \in HeaderSpellings[3], c \in HeaderSpellings[4],
                          x \in HeaderSpellings[5] }

CanonicalHeader == <<s_Name, s_Birthday, s_TownCounty, s_Country, <<>> >>

\* the source rows tried: name, birthday, town, country, notes as written
RowCatalogue ==
    << <<n_AnnNg,         b_1Jan, t_Leeds, c_UnitedKingdom,  <<"x">> >>,
       <<n_BenOyelaran,   <<>>,   t_Lagos, c_Nigeria,        <<>> >>,
       <<n_CeeWu,         b_3Mar, t_York,  c_united_kingdom, <<>> >>,
       <<n_EkeneAmobi,    b_1Jan, t_Lagos, c_Nigeria,        <<>> >>,
       <<n_EkeneTabAmobi, b_3Mar, t_Lagos, c_Nigeria,        <<>> >>,
       <<<<>>,            b_1Jan, t_York,  c_Nigeria,        <<>> >>,
       <<n_Spaces,        b_3Mar, t_Leeds, c_Nigeria,        <<>> >>,
       <<n_DeeLi,         b_1Jan, t_York,  <<>>,             <<>> >> >>

\* increasing index sequences into the catalogue, at most MaxRows long
RECURSIVE Increasing(_, _)
Increasing(from, len) ==
    IF len = 0 THEN { <<>> }
    ELSE { <<>> } \cup
         UNION { { <<i>> \o rest : rest \in Increasing(i + 1, len - 1) } :
                 i \in from..Len(RowCatalogue) }

RowSelections == Increasing(1, MaxRows)

RowsAt(selection) ==
    List([k \in 1..Len(selection) |-> RowCatalogue[selection[k]]])

\* the columns of a header choice that are present
Present(choice) == SelectSeq(<<1, 2, 3, 4, 5>>, LAMBDA i : choice[i] # <<>>)

\* a table file with the chosen header spellings over the chosen rows
TableFile(choice, rows, delimiter, sniff) ==
    LET present == Present(choice) IN
    [kind      |-> "table",
     delimiter |-> delimiter,
     sniff     |-> sniff,
     header    |-> List([j \in 1..Len(present) |-> choice[present[j]]]),
     rows      |-> List([i \in 1..Len(rows) |->
                      List([j \in 1..Len(present) |-> rows[i][present[j]]])])]

\* a file that is missing, empty or whitespace only
PlainFile(kind) ==
    [kind |-> kind, delimiter |-> ",", sniff |-> "raise",
     header |-> <<>>, rows |-> <<>>]

NoExif == [none |-> TRUE, items |-> <<>>]
Exif(items) == [none |-> FALSE, items |-> items]

ImageFile(name, has_getexif, exif) ==
    [name |-> name, kind |-> "image", has_getexif |-> has_getexif, exif |-> exif]
OtherFile(name, kind) ==
    [name |-> name, kind |-> kind, has_getexif |-> FALSE, exif |-> NoExif]

\* the folder entries tried
FilePool ==
    { ImageFile(f_ekene_jpg, TRUE, Exif(<< [tag |-> 274, value |-> 6] >>)),
      ImageFile(f_dated_jpg, TRUE, Exif(<< [tag |-> 271, value |-> 0],
                                           [tag |-> 274, value |-> 3] >>)),
      ImageFile(f_EKENEX_png, FALSE, NoExif),
      OtherFile(f_ann_jpg, "corrupt"),
      OtherFile(f_ekene, "directory"),
      OtherFile(f_ekene_lnk, "dangling"),
      OtherFile(f_ekene_tif, "unwritable") }

\* listings of distinct entries, at most len long, in any order
RECURSIVE Listings(_)
Listings(len) ==
    IF len = 0 THEN { <<>> }
    ELSE LET shorter == Listings(len - 1) IN
         shorter \cup
         UNION { { Append(l, f) : f \in {g \in FilePool :
                                           \A k \in 1..Len(l) : l[k] # g} } :
                 l \in {m \in shorter : Len(m) = len - 1} }

Folder(kind, listing) == [kind |-> kind, listing |-> listing]

DefaultFolder ==
    Folder("listable", << ImageFile(f_ekene_jpg, TRUE,
                                    Exif(<< [tag |-> 274, value |-> 6] >>)),
                          OtherFile(f_ann_jpg, "corrupt") >>)

\* the EXIF dictionaries tried for one image: every Orientation value alone,
\* and after or before another tag
OrientationValues == 0..9

ExifPool ==
    {NoExif, Exif(<<>>), Exif(<< [tag |-> 271, value |-> 0] >>)}
    \cup { Exif(<< [tag |-> 274, value |-> v] >>) : v \in OrientationValues }
    \cup { Exif(<< [tag |-> 271, value |-> 3], [tag |-> 274, value |-> v] >>) :
           v \in OrientationValues }
    \cup { Exif(<< [tag |-> 274, value |-> v], [tag |-> 271, value |-> 6] >>) :
           v \in OrientationValues }

\* the texts typed into the search box
Queries == { <<>>, <<"A", "n", "n">>, <<"z", "z">>, s_nan }

-----------------------------------------------------------------------------
(* The page: initial state and the steps of main *)

\* the locals of main before a run
RunStart ==
    /\ df = EmptyDataFrame
    /\ errors = <<>>
    /\ search_query = <<>>
    /\ selected_country = Str(s_All)
    /\ all_countries = <<>>
    /\ filtered_df = EmptyDataFrame
    /\ grid_open = FALSE
    /\ no_match = FALSE
    /\ cards = <<>>
    /\ exception = "none"

\* header spellings vary over one source row
InitHeaders ==
    /\ \E choice \in HeaderChoices :
          csv_file = TableFile(choice, RowsAt(<<1>>), ",", ",")
    /\ photos = DefaultFolder
    /\ astype_keeps_na = FALSE

\* the file is missing, blank, or a table whose delimiter the sniffer gets
\* right, gets wrong or cannot determine
InitFiles ==
    /\ csv_file \in
          { PlainFile(kind) : kind \in {"missing", "empty", "whitespace"} }
          \cup { TableFile(CanonicalHeader, RowsAt(<<1, 2>>), delimiter, sniff) :
                 delimiter \in {",", ";"}, sniff \in {",", ";", "raise"} }
    /\ photos = DefaultFolder
    /\ astype_keeps_na = FALSE

\* the source rows vary under the canonical header, and the pandas installed
InitRows ==
    /\ \E selection \in RowSelections :
          csv_file = TableFile(CanonicalHeader, RowsAt(selection), ",", ",")
    /\ photos = DefaultFolder
    /\ astype_keeps_na \in BOOLEAN

\* the photos folder varies
InitPhotos ==
    /\ csv_file = TableFile(CanonicalHeader, RowsAt(<<1, 4, 5, 7>>), ",", ",")
    /\ photos \in { Folder("absent", <<>>), Folder("unreadable", <<>>) }
                  \cup { Folder("listable", listing) :
                         listing \in Listings(MaxPhotos) }
    /\ astype_keeps_na = FALSE

\* the EXIF data of one matching image varies
InitExif ==
    /\ csv_file = TableFile(CanonicalHeader, RowsAt(<<1>>), ",", ",")
    /\ \E has_getexif \in BOOLEAN, exif \in ExifPool :
          photos = Folder("listable",
                          << ImageFile(f_ann_jpg, has_getexif, exif) >>)
    /\ astype_keeps_na = FALSE

Init ==
    /\ InitHeaders \/ InitFiles \/ InitRows \/ InitPhotos \/ InitExif
    /\ pc = "start"
    /\ runs = 1
    /\ cached = FALSE
    /\ cache_value = [df |-> EmptyDataFrame, errors |-> <<>>]
    /\ RunStart

\* df = load_data() under @st.cache_data, then `if df.empty: return`
LoadStep ==
    /\ pc = "start"
    /\ LET result == IF cached THEN cache_value
                     ELSE load_data(csv_file, astype_keeps_na)
       IN  /\ cached' = TRUE
           /\ cache_value' = result
           /\ df' = result.df
           /\ errors' = result.errors
           /\ pc' = IF IsEmpty(result.df) THEN "done" ELSE "sidebar"
    /\ UNCHANGED <<csv_file, photos, astype_keeps_na, runs, search_query,
                   selected_country, all_countries, filtered_df, grid_open,
                   no_match, cards, exception>>

\* the sidebar: the search box, the country list and the select box
SidebarStep ==
    /\ pc = "sidebar"
    /\ IF SortedRaises(Unique(CountryColumn(df)))
       THEN /\ pc' = "crashed"
            /\ exception' = "TypeError"
            /\ UNCHANGED <<search_query, all_countries, selected_country>>
       ELSE /\ \E text \in Queries : search_query' = Lower(text)
            /\ all_countries' = AllCountries(df)
            /\ \E k \in 1..Len(AllCountries(df)) :
                  selected_country' = AllCountries(df)[k]
            /\ pc' = "filter"
            /\ UNCHANGED exception
    /\ UNCHANGED <<csv_file, photos, astype_keeps_na, runs, cached, cache_value,
                   df, errors, filtered_df, grid_open, no_match, cards>>

\* the filtering logic on df.copy(), then the grid container is opened
FilterStep ==
    /\ pc = "filter"
    /\ filtered_df' = ApplyFilters(df, selected_country, search_query)
    /\ grid_open' = TRUE
    /\ pc' = "render"
    /\ UNCHANGED <<csv_file, photos, astype_keeps_na, runs, cached, cache_value,
                   df, errors, search_query, selected_country, all_countries,
                   no_match, cards, exception>>

\* `if filtered_df.empty`: the message, then the container is closed
RenderNoMatch ==
    /\ pc = "render"
    /\ IsEmpty(filtered_df)
    /\ no_match' = TRUE
    /\ pc' = "done"
    /\ UNCHANGED <<csv_file, photos, astype_keeps_na, runs, cached, cache_value,
                   df, errors, search_query, selected_country, all_countries,
                   filtered_df, grid_open, cards, exception>>

\* one iteration of `for index, row in filtered_df.iterrows()`
RenderCard ==
    /\ pc = "render"
    /\ Len(cards) < Len(filtered_df.rows)
    /\ LET row        == filtered_df.rows[Len(cards) + 1]
           name       == Field(filtered_df, row, s_Name)
           image_path == get_image_path(name, photos)
           img_src    == get_base64_image_src(image_path, photos)
       IN  IF image_path.kind = "raise" \/ img_src.kind = "raise"
           THEN /\ pc' = "crashed"
                /\ exception' = "resolver"
                /\ UNCHANGED cards
           ELSE /\ cards' = Append(cards, [name       |-> name,
                                           birthday   |-> Field(filtered_df, row, s_Birthday),
                                           town       |-> Field(filtered_df, row, s_TownCounty),
                                           country    |-> Field(filtered_df, row, s_Country),
                                           image_path |-> image_path,
                                           img_src    |-> img_src])
                /\ UNCHANGED <<pc, exception>>
    /\ UNCHANGED <<csv_file, photos, astype_keeps_na, runs, cached, cache_value,
                   df, errors, search_query, selected_country, all_countries,
                   filtered_df, grid_open, no_match>>

\* the loop is over: the container is closed
EndGrid ==
    /\ pc = "render"
    /\ ~IsEmpty(filtered_df)
    /\ Len(cards) = Len(filtered_df.rows)
    /\ pc' = "done"
    /\ UNCHANGED <<csv_file, photos, astype_keeps_na, runs, cached, cache_value,
                   df, errors, search_query, selected_country, all_countries,
                   filtered_df, grid_open, no_match, cards, exception>>

\* a widget changes and the script runs again from the top
Rerun ==
    /\ pc \in {"done", "crashed"}
    /\ runs < MaxRuns
    /\ runs' = runs + 1
    /\ pc' = "start"
    /\ df' = EmptyDataFrame
    /\ errors' = <<>>
    /\ search_query' = <<>>
    /\ selected_country' = Str(s_All)
    /\ all_countries' = <<>>
    /\ filtered_df' = EmptyDataFrame
    /\ grid_open' = FALSE
    /\ no_match' = FALSE
    /\ cards' = <<>>
    /\ exception' = "none"
    /\ UNCHANGED <<csv_file, photos, astype_keeps_na, cached, cache_value>>

Next ==
    \/ LoadStep
    \/ SidebarStep
    \/ FilterStep
    \/ RenderNoMatch
    \/ RenderCard
    \/ EndGrid
    \/ Rerun

Spec == Init /\ [][Next]_vars

-----------------------------------------------------------------------------
(* Properties *)

\* the file is a table that the sniffer read with its own delimiter
ReadAsWritten == csv_file.kind = "table" /\ csv_file.sniff = csv_file.delimiter

\* load_data returned a DataFrame and showed no error
Loaded == cached /\ cache_value.errors = <<>>

\* the Name values of the rows of a frame
Names(frame) ==
    List([i \in 1..Len(frame.rows) |-> Field(frame, frame.rows[i], s_Name)])

\* a is b with some elements left out, the order kept
RECURSIVE IsSubseq(_, _)
IsSubseq(a, b) ==
    IF a = <<>> THEN TRUE
    ELSE IF b = <<>> THEN FALSE
    ELSE IF Head(a) = Head(b) THEN IsSubseq(Tail(a), Tail(b))
    ELSE IsSubseq(a, Tail(b))

\* h differs from target only in letter case, surrounding whitespace or
\* underscore versus space, or is the spelling Town_County of Town/County
ClaimedSpelling(h, target) ==
    \/ Lower(Replace(Strip(h), "_", " ")) = Lower(Replace(target, "_", " "))
    \/ h = h_Town_County /\ target = s_TownCounty

\* C1: every header that differs from a canonical field only in case,
\* surrounding whitespace or underscore versus space, "Town_County" among
\* them, is accepted and renamed to the canonical form.
C1_HeaderSpellingsAccepted ==
    (/\ cached
     /\ ReadAsWritten
     /\ \A k \in 1..Len(required_cols_map) :
           \E j \in 1..Len(csv_file.header) :
              ClaimedSpelling(csv_file.header[j], required_cols_map[k].target_col))
    => /\ cache_value.errors = <<>>
       /\ \A k \in 1..Len(required_cols_map) :
             \A j \in 1..Len(csv_file.header) :
                ClaimedSpelling(csv_file.header[j], required_cols_map[k].target_col)
                => cache_value.df.columns[j] = required_cols_map[k].target_col

\* the table has no header for some required column, however spelled
LacksRequired(file) ==
    /\ file.kind = "table"
    /\ \E k \in 1..Len(required_cols_map) :
          \A j \in 1..Len(file.header) :
             ~ClaimedSpelling(file.header[j], required_cols_map[k].target_col)

\* C2: a missing, blank or column-lacking source gives an error message, no
\* records and no grid or card; and load_data never returns zero records
\* without an error message.
C2_LoadAllOrNothing ==
    cached =>
       /\ (csv_file.kind \in {"missing", "empty", "whitespace"}
           \/ LacksRequired(csv_file))
          => /\ cache_value.errors # <<>>
             /\ cache_value.df.rows = <<>>
             /\ ~grid_open /\ cards = <<>>
       /\ Len(cache_value.df.rows) = 0 => cache_value.errors # <<>>

\* the end-to-end scenario of C3: Ann Ng / United Kingdom, Ben Oyelaran /
\* Nigeria, Cee Wu / united kingdom
ScenarioThreeRows ==
    csv_file = TableFile(CanonicalHeader, RowsAt(<<1, 2, 3>>), ",", ",")

\* C3: countries that differ only in case or surrounding whitespace are one
\* entry of the country list, and in the scenario the country filter
\* "United Kingdom" returns exactly the Ann and Cee records, in order.
C3_CountryNormalized ==
    /\ \A i, j \in 1..Len(all_countries) :
          (i # j /\ ~all_countries[i].na /\ ~all_countries[j].na)
          => Lower(Strip(all_countries[i].s)) # Lower(Strip(all_countries[j].s))
    /\ (/\ ScenarioThreeRows
        /\ grid_open
        /\ search_query = <<>>
        /\ selected_country = Str(c_UnitedKingdom))
       => Names(filtered_df) = << Str(n_AnnNg), Str(n_CeeWu) >>

\* the first whitespace-delimited token of a name, lowercased
RECURSIVE UntilWhitespace(_)
UntilWhitespace(s) ==
    IF s = <<>> \/ Head(s) \in Whitespace THEN <<>>
    ELSE <<Head(s)>> \o UntilWhitespace(Tail(s))

FirstToken(text) == Lower(UntilWhitespace(LStrip(text)))

\* the path C4 describes: the first entry whose lowercased name contains the
\* token; none for an empty token, an absent folder or no such entry
ClaimedImagePath(text, folder) ==
    LET token == FirstToken(text) IN
    IF token = <<>> \/ folder.kind = "absent" THEN NoPath
    ELSE IF \E k \in 1..Len(folder.listing) :
               Contains(token, Lower(folder.listing[k].name))
         THEN [kind |-> "path",
               file |-> folder.listing[
                           CHOOSE k \in 1..Len(folder.listing) :
                              /\ Contains(token, Lower(folder.listing[k].name))
                              /\ \A m \in 1..(k - 1) :
                                    ~Contains(token, Lower(folder.listing[m].name))
                        ].name]
         ELSE NoPath

\* C4: get_image_path keys on the lowercased first whitespace-delimited token
\* of the name, any whitespace character ending the token, and returns the
\* first folder entry whose lowercased name contains it.
C4_FirstTokenMatch ==
    \A k \in 1..Len(cards) :
       cards[k].image_path = ClaimedImagePath(cards[k].name.s, photos)

\* the Orientation value the image's EXIF data holds; -1 when it holds none
OrientationCode(file) ==
    IF /\ file.has_getexif
       /\ ~file.exif.none
       /\ \E k \in 1..Len(file.exif.items) : file.exif.items[k].tag = 274
    THEN file.exif.items[CHOOSE k \in 1..Len(file.exif.items) :
                            file.exif.items[k].tag = 274].value
    ELSE -1

C6_ResolutionNeverRaises ==
    /\ exception # "resolver"
    /\ \A k \in 1..Len(cards) :
          /\ cards[k].image_path.kind \in {"path", "none"}
          /\ cards[k].img_src.kind \in {"data", "placeholder"}
          /\ cards[k].name = Names(filtered_df)[k]
    /\ Len(cards) <= Len(filtered_df.rows)
    /\ (pc = "done" /\ grid_open) => Len(cards) = Len(filtered_df.rows)

\* a record whose matched file cannot be decoded got the placeholder, and a
\* later record still got its photo
C6_Witness ==
    /\ pc = "done"
    /\ \E i, j \in 1..Len(cards) :
          /\ i < j
          /\ cards[i].image_path.kind = "path"
          /\ FileAt(photos, cards[i].image_path.file).kind = "corrupt"
          /\ cards[i].img_src = placeholder_url
          /\ cards[j].img_src.kind = "data"

\* the query occurs in none of the loaded records' searched text
QueryInNoRecord ==
    \A i \in 1..Len(df.rows) : ~Contains(search_query, RowText(df, df.rows[i]))

C8_NoInputIsFatal ==
    /\ pc # "crashed"
    /\ exception = "none"
    /\ (Loaded /\ ReadAsWritten) =>
          \A i \in 1..Len(cache_value.df.rows) :
             LET frame  == cache_value.df
                 source == read_csv(csv_file, csv_file.sniff).rows[i]
             IN  source[ColumnIndex(frame, s_Country)].na
                 => Field(frame, frame.rows[i], s_Country).na

\* C9: after a successful load every Name is a string, a row whose Name was
\* missing or blank is kept with the Name "Unknown Profile", and the records
\* are in source order.
C9_NameDefaulted ==
    (Loaded /\ ReadAsWritten) =>
       LET frame  == cache_value.df
           parsed == read_csv(csv_file, csv_file.sniff)
           n      == ColumnIndex(frame, s_Name)
       IN  /\ Len(frame.rows) = Len(csv_file.rows)
           /\ \A i \in 1..Len(frame.rows) :
                 /\ ~frame.rows[i][n].na
                 /\ \A j \in 1..Len(frame.columns) :
                       j # n => frame.rows[i][j] = parsed.rows[i][j]
                 /\ IF parsed.rows[i][n].na \/ Strip(parsed.rows[i][n].s) = <<>>
                    THEN frame.rows[i][n] = Str(s_UnknownProfile)
                    ELSE frame.rows[i][n] = parsed.rows[i][n]

\* C10: when the sniffer cannot determine the delimiter of a non-blank
\* source, load_data parses it with a comma and shows no error for the
\* failed detection.
C10_SniffFallsBackToComma ==
    (cached /\ csv_file.kind = "table" /\ csv_file.sniff = "raise") =>
       /\ cache_value = load_data([csv_file EXCEPT !.sniff = ","], astype_keeps_na)
       /\ \A k \in 1..Len(cache_value.errors) :
             cache_value.errors[k].kind # "load_error"

====
